---- MODULE Spec2Model ----
(***************************************************************************)
(* Model of class WaterDensity (src/class_water_density.py): an object     *)
(* holding a synthetic mass/volume dataset (self.df) and the result of a   *)
(* least-squares fit over it (self.fit_results).                           *)
(*                                                                         *)
(* Numbers.  The code computes in IEEE double precision.  A number is      *)
(* modelled here as an exact rational <<n, d>> in lowest terms with d > 0, *)
(* extended with the IEEE special values NaN = <<0,0>>, +Inf = <<1,0>> and *)
(* -Inf = <<-1,0>>, which numpy produces (with a warning, not an           *)
(* exception) when it divides by zero.  Rounding is abstracted; the sign   *)
(* of zero is not kept.  A square root is kept symbolically as the record  *)
(* [sqrt |-> q], the non-negative root of q.                               *)
(*                                                                         *)
(* An attribute that may be None is a sequence of length at most one:      *)
(* None is <<>> and a held value v is <<v>>.                               *)
(***************************************************************************)
EXTENDS Integers, Sequences, FiniteSets, TLC

VARIABLES
    M0, V0, rho,     \* self.M0, self.V0, self.rho
    df,              \* self.df: None or the rows of the dataset
    fit_results,     \* self.fit_results: None or the dictionary of the fit
    op,              \* the method called last
    prev,            \* the method called before it
    args,            \* the arguments of the last call
    outcome,         \* "ok" when the last call returned, else its exception
    ret,             \* what the last call returned
    succeeded        \* gen_fake_data, calculate_fit: which have returned so far

vars == <<M0, V0, rho, df, fit_results, op, prev, args, outcome, ret, succeeded>>

(* ------------------------------ numbers ------------------------------ *)

RECURSIVE GCD(_, _)
GCD(a, b) == IF b = 0 THEN a ELSE GCD(b, a % b)

Abs(i) == IF i < 0 THEN -i ELSE i

Sgn(i) == IF i < 0 THEN -1 ELSE IF i > 0 THEN 1 ELSE 0

Norm(n, d) ==
    LET g == GCD(Abs(n), Abs(d))
    IN  <<Sgn(d) * (n \div g), Abs(d) \div g>>

Num(i) == <<i, 1>>

Zero == <<0, 1>>

NaN == <<0, 0>>

IsNaN(x) == x = NaN

IsFinite(x) == x[2] # 0

IsInf(x) == x[2] = 0 /\ x[1] # 0

Neg(x) == <<-x[1], x[2]>>

Add(x, y) ==
    IF IsNaN(x) \/ IsNaN(y) THEN NaN
    ELSE IF IsFinite(x) /\ IsFinite(y)
         THEN Norm(x[1] * y[2] + y[1] * x[2], x[2] * y[2])
    ELSE IF IsInf(x) /\ IsInf(y) THEN (IF x = y THEN x ELSE NaN)
    ELSE IF IsInf(x) THEN x ELSE y

Sub(x, y) == Add(x, Neg(y))

Mul(x, y) ==
    IF IsNaN(x) \/ IsNaN(y) THEN NaN
    ELSE IF IsFinite(x) /\ IsFinite(y)
         THEN LET g1 == GCD(Abs(x[1]), y[2])
                  g2 == GCD(Abs(y[1]), x[2])
              IN  <<(x[1] \div g1) * (y[1] \div g2),
                    (x[2] \div g2) * (y[2] \div g1)>>
    ELSE IF x[1] = 0 \/ y[1] = 0 THEN NaN
    ELSE <<Sgn(x[1]) * Sgn(y[1]), 0>>

\* numpy's float64 division: a zero divisor gives nan or +-inf, not an exception
Div(x, y) ==
    IF IsNaN(x) \/ IsNaN(y) THEN NaN
    ELSE IF IsInf(y) THEN (IF IsInf(x) THEN NaN ELSE Zero)
    ELSE IF y[1] = 0 THEN (IF x[1] = 0 THEN NaN ELSE <<Sgn(x[1]), 0>>)
    ELSE IF IsInf(x) THEN <<Sgn(x[1]) * Sgn(y[1]), 0>>
    ELSE Mul(x, Norm(y[2] * Sgn(y[1]), Abs(y[1])))

Sq(x) == Mul(x, x)

\* x < y and x <= y on numbers; every comparison with NaN is false
Less(x, y) ==
    /\ ~IsNaN(x) /\ ~IsNaN(y) /\ x # y
    /\ IF IsFinite(x) /\ IsFinite(y) THEN x[1] * y[2] < y[1] * x[2]
       ELSE IF IsInf(x) THEN x[1] < 0 ELSE y[1] > 0

Leq(x, y) == ~IsNaN(x) /\ ~IsNaN(y) /\ (x = y \/ Less(x, y))

\* np.sqrt: nan for a negative argument
Sqrt(x) == [sqrt |-> IF Less(x, Zero) THEN NaN ELSE x]

RootDiv(r, s) == [sqrt |-> Div(r.sqrt, s.sqrt)]

RootMul(r, s) == [sqrt |-> Mul(r.sqrt, s.sqrt)]

RECURSIVE Sum(_)
Sum(s) == IF s = <<>> THEN Zero ELSE Add(Head(s), Sum(Tail(s)))

None == <<>>

(* ------------------------------ inputs ------------------------------- *)

\* largest n_points a caller passes
MaxPoints == 4

\* (M0, V0, rho) given to the constructor; the first is the default
Constructions == {<<300, 100, 1>>, <<300, 0, 1>>, <<0, 100, 2>>}

NPoints == -1 .. MaxPoints

\* (V_min, V_max): a range like the default, one through zero, an empty
\* one and an inverted one
Ranges == {<<100, 200>>, <<-1, 1>>, <<2, 2>>, <<2, 0>>}

\* err_M and err_V, in tenths
ErrTenths == {-1, 0, 1}

Noises == {-1, 0, 1}

\* values np.random.uniform(-noise, noise) may return
Draws(noise) == IF noise = Zero THEN {Zero}
                ELSE {Div(noise, Num(2)), Neg(Div(noise, Num(2)))}

GenArgs(n_points, r, eM, eV, w) ==
    [n_points |-> n_points, V_min |-> Num(r[1]), V_max |-> Num(r[2]),
     err_M |-> Div(Num(eM), Num(10)), err_V |-> Div(Num(eV), Num(10)),
     noise |-> Num(w)]

\* every call of gen_fake_data considered
AllArgs == {GenArgs(n, r, eM, eV, w) :
               n \in NPoints, r \in Ranges, eM \in ErrTenths, eV \in ErrTenths,
               w \in Noises}

\* the calls the object's whole life is explored with
FewArgs == {GenArgs(n, r, 1, 1, 0) : n \in NPoints, r \in {<<100, 200>>, <<2, 2>>}}

(* --------------------------- gen_fake_data --------------------------- *)

\* linspace with endpoint=False: the last value stops short of stop
linspace_open(start, stop, num) ==
    LET step == Div(Sub(stop, start), Num(num))
    IN  [i \in 1 .. num |-> Add(start, Mul(Num(i - 1), step))]

\* np.linspace(start, stop, num) for num >= 0
linspace(start, stop, num) ==
    IF num = 1 THEN <<start>>
    ELSE LET step == Div(Sub(stop, start), Num(num - 1))
         IN  [i \in 1 .. num |->
                 IF i = num THEN stop ELSE Add(start, Mul(Num(i - 1), step))]

MassValues(V_values, u) ==
    LET offset == Sub(M0, Mul(rho, V0))
    IN  [i \in 1 .. Len(V_values) |->
            Add(Add(Mul(rho, V_values[i]), offset), u[i])]

DataFrame(M_values, V_values, err_M, err_V) ==
    [i \in 1 .. Len(V_values) |->
        [M       |-> M_values[i],
         sigma_M |-> Mul(M_values[i], err_M),
         V       |-> V_values[i],
         sigma_V |-> Mul(V_values[i], err_V)]]

gen_fake_data(Calls) ==
    \E a \in Calls :
      /\ op' = "gen_fake_data"
      /\ prev' = op
      /\ args' = a
      /\ IF a.n_points < 0
         THEN \* np.linspace raises ValueError
              /\ outcome' = "ValueError"
              /\ ret' = None
              /\ UNCHANGED <<df, succeeded>>
         ELSE \E u \in [1 .. a.n_points -> Draws(a.noise)] :
                LET V_values == linspace(a.V_min, a.V_max, a.n_points)
                    M_values == MassValues(V_values, u)
                IN  /\ df' = <<DataFrame(M_values, V_values, a.err_M, a.err_V)>>
                    /\ ret' = df'
                    /\ outcome' = "ok"
                    /\ succeeded' = succeeded \cup {"gen_fake_data"}
      /\ UNCHANGED <<M0, V0, rho, fit_results>>

(* --------------------------- calculate_fit --------------------------- *)

\* a return in place of the raise
SilentReturn == "ok"

\* raise ValueError(...) of a method called before what it needs exists
UsageError == "ValueError"

Column(rows, name) == [i \in 1 .. Len(rows) |-> rows[i][name]]

Determinant(N, sum_x, sum_x2) == Sub(Mul(Num(N), sum_x2), Sq(sum_x))

Slope(N, sum_x, sum_y, sum_xy, D) ==
    Div(Sub(Mul(Num(N), sum_xy), Mul(sum_x, sum_y)), D)

\* the mean of y alone: the term a * sum_x dropped
InterceptMeanOnly(N, sum_x, sum_y, a) == Div(sum_y, Num(N))

Intercept(N, sum_x, sum_y, a) == Div(Sub(sum_y, Mul(a, sum_x)), Num(N))

Predict(a, b, V_values) ==
    [i \in 1 .. Len(V_values) |-> Add(Mul(a, V_values[i]), b)]

ResidualError(M_values, y_pred, N) ==
    Sqrt(Div(Sum([i \in 1 .. Len(M_values) |-> Sq(Sub(M_values[i], y_pred[i]))]),
             Num(N - 2)))

\* lines 65-103 for N >= 1: the dictionary stored in self.fit_results
LeastSquares(rows) ==
    LET V_values == Column(rows, "V")
        M_values == Column(rows, "M")
        N        == Len(V_values)
        sum_x    == Sum(V_values)
        sum_y    == Sum(M_values)
        sum_x2   == Sum([i \in 1 .. N |-> Sq(V_values[i])])
        sum_xy   == Sum([i \in 1 .. N |-> Mul(V_values[i], M_values[i])])
        D        == Determinant(N, sum_x, sum_x2)
        a        == Slope(N, sum_x, sum_y, sum_xy, D)
        b        == Intercept(N, sum_x, sum_y, a)
        y_pred   == Predict(a, b, V_values)
        sigma_y  == ResidualError(M_values, y_pred, N)
        Sxx      == Sub(sum_x2, Div(Sq(sum_x), Num(N)))
        sigma_a  == RootDiv(sigma_y, Sqrt(Sxx))
        x_bar    == Div(sum_x, Num(N))
        sigma_b  == RootMul(sigma_y,
                            Sqrt(Add(Div(Num(1), Num(N)), Div(Sq(x_bar), Sxx))))
    IN  [M0 |-> M0, V0 |-> V0, rho |-> rho,
         a |-> a, sigma_a |-> sigma_a,
         b |-> b, sigma_b |-> sigma_b,
         y_pred |-> y_pred, sigma_y |-> sigma_y]

\* calculate_fit centring the volumes in place (V_values -= mean) before
\* the sums: self.df['V'].values is a view of the dataset
calculate_fit_inplace ==
    /\ op' = "calculate_fit"
    /\ prev' = op
    /\ args' = <<>>
    /\ IF df = None \/ Len(df[1]) = 0
       THEN /\ outcome' = IF df = None THEN "ValueError" ELSE "ZeroDivisionError"
            /\ ret' = None
            /\ UNCHANGED <<df, fit_results, succeeded>>
       ELSE LET rows == df[1]
                mean == Div(Sum(Column(rows, "V")), Num(Len(rows)))
                centred == [i \in 1 .. Len(rows) |->
                               [rows[i] EXCEPT !.V = Sub(rows[i].V, mean)]]
            IN  /\ df' = <<centred>>
                /\ fit_results' = <<LeastSquares(centred)>>
                /\ ret' = fit_results'
                /\ outcome' = "ok"
                /\ succeeded' = succeeded \cup {"calculate_fit"}
    /\ UNCHANGED <<M0, V0, rho>>

calculate_fit ==
    /\ op' = "calculate_fit"
    /\ prev' = op
    /\ args' = <<>>
    /\ IF df = None
       THEN /\ outcome' = UsageError
            /\ ret' = None
            /\ UNCHANGED <<fit_results, succeeded>>
       ELSE IF Len(df[1]) = 0
       THEN \* the Python integers of 1 / N on line 90: ZeroDivisionError
            /\ outcome' = "ZeroDivisionError"
            /\ ret' = None
            /\ UNCHANGED <<fit_results, succeeded>>
       ELSE /\ fit_results' = <<LeastSquares(df[1])>>
            /\ ret' = fit_results'
            /\ outcome' = "ok"
            /\ succeeded' = succeeded \cup {"calculate_fit"}
    /\ UNCHANGED <<M0, V0, rho, df>>

(* -------------------------- plot_regression -------------------------- *)

plot_regression ==
    /\ op' = "plot_regression"
    /\ prev' = op
    /\ args' = <<>>
    /\ ret' = None
    /\ IF df = None \/ fit_results = None
       THEN outcome' = UsageError
       ELSE LET rows   == df[1]
                y_pred == fit_results[1].y_pred
            IN  IF Len(rows) > Len(y_pred)
                THEN \* y_pred[sort_idx] on line 129
                     outcome' = "IndexError"
                ELSE IF \E i \in 1 .. Len(rows) :
                           \/ Less(rows[i].sigma_V, Zero)
                           \/ Less(rows[i].sigma_M, Zero)
                THEN \* plt.errorbar refuses negative errors in newer versions
                     outcome' \in {"ok", "ValueError"}
                ELSE outcome' = "ok"
    /\ UNCHANGED <<M0, V0, rho, df, fit_results, succeeded>>

(* ------------------- format_table, export_latex_table ---------------- *)

\* f"{x:.3f}": x in thousandths, rounded to nearest (an exact tie to even)
Fmt3(x) ==
    IF IsNaN(x) THEN "nan"
    ELSE IF IsInf(x) THEN (IF x[1] > 0 THEN "inf" ELSE "-inf")
    ELSE LET n == Abs(x[1]) * 1000
             q == n \div x[2]
             r == n % x[2]
             m == IF 2 * r > x[2] \/ (2 * r = x[2] /\ q % 2 = 1)
                  THEN q + 1 ELSE q
         IN  Sgn(x[1]) * m

TableRow(row) ==
    [M_pm |-> <<Fmt3(row.M), Fmt3(row.sigma_M)>>,
     dM_M |-> Fmt3(Div(row.sigma_M, row.M)),
     V_pm |-> <<Fmt3(row.V), Fmt3(row.sigma_V)>>,
     dV_V |-> Fmt3(Div(row.sigma_V, row.V))]

\* the outcome of format_table and, when it returns, the table
FormatTable ==
    IF df = None
    THEN [outcome |-> UsageError, table |-> <<>>]
    ELSE IF \E i \in 1 .. Len(df[1]) : df[1][i].M = Zero \/ df[1][i].V = Zero
    THEN \* sigma / value on Python floats, lines 165 and 167
         [outcome |-> "ZeroDivisionError", table |-> <<>>]
    ELSE [outcome |-> "ok",
          table |-> [i \in 1 .. Len(df[1]) |-> TableRow(df[1][i])]]

format_table ==
    /\ op' = "format_table"
    /\ prev' = op
    /\ args' = <<>>
    /\ outcome' = FormatTable.outcome
    /\ ret' = IF FormatTable.outcome = "ok" THEN <<FormatTable.table>> ELSE None
    /\ UNCHANGED <<M0, V0, rho, df, fit_results, succeeded>>

\* table.to_latex(escape=False, index=False)
to_latex(table) == [tabular |-> table]

\* The LaTeX code returned is also written to the file named, or printed
\* when no file is named; neither is state of the object.

export_latex_table ==
    \E filename \in {"None", "table.tex"} :
      /\ op' = "export_latex_table"
      /\ prev' = op
      /\ args' = [filename |-> filename]
      /\ outcome' = FormatTable.outcome
      /\ ret' = IF FormatTable.outcome = "ok"
                THEN <<to_latex(FormatTable.table)>> ELSE None
      /\ UNCHANGED <<M0, V0, rho, df, fit_results, succeeded>>

(* --------------------------- specifications -------------------------- *)

Init ==
    /\ \E c \in Constructions :
          /\ M0 = Num(c[1])
          /\ V0 = Num(c[2])
          /\ rho = Num(c[3])
    /\ df = None
    /\ fit_results = None
    /\ op = "__init__"
    /\ prev = "__init__"
    /\ args = <<>>
    /\ outcome = "ok"
    /\ ret = None
    /\ succeeded = {}

\* gen_fake_data called with one of FewArgs
GenFew == gen_fake_data(FewArgs)

\* gen_fake_data as the first call on a new object
GenFirst == op = "__init__" /\ gen_fake_data(AllArgs)

\* the whole life of an object
Next ==
    \/ GenFew
    \/ calculate_fit
    \/ plot_regression
    \/ format_table
    \/ export_latex_table

Spec == Init /\ [][Next]_vars

\* one call of gen_fake_data, with any arguments
NextGen == GenFirst

SpecGen == Init /\ [][NextGen]_vars

\* one dataset, with any arguments, and fits of it
NextFit ==
    \/ GenFirst
    \/ calculate_fit

SpecFit == Init /\ [][NextFit]_vars

(* ------------------------------- claims ------------------------------ *)

Rows == df[1]

Fit == fit_results[1]

NoGen == "gen_fake_data" \notin succeeded

NoFit == "calculate_fit" \notin succeeded

C2_InsufficientData ==
    (op = "calculate_fit" /\ df # None /\ Len(Rows) < 3)
        => (outcome # "ok" /\ fit_results = None)

AllSameV == \A i \in 1 .. Len(Rows) : Rows[i].V = Rows[1].V

\* C3: calculate_fit on 3 or more points with identical x fails and stores
\* no fit.
C3_DegenerateInput ==
    (op = "calculate_fit" /\ df # None /\ Len(Rows) >= 3 /\ AllSameV)
        => (outcome # "ok" /\ fit_results = None)

InvalidArgument(a) ==
    \/ a.n_points < 3
    \/ ~Less(a.V_min, a.V_max)
    \/ Less(a.err_M, Zero) \/ Less(a.err_V, Zero) \/ Less(a.noise, Zero)

\* C4: gen_fake_data with n_points < 3, V_min >= V_max or a negative err_M,
\* err_V or noise fails and stores no dataset.
C4_InvalidArgument ==
    (op = "gen_fake_data" /\ InvalidArgument(args))
        => (outcome # "ok" /\ df = None)

Ascending(rows) ==
    \A i \in 1 .. Len(rows) - 1 : Leq(rows[i].V, rows[i + 1].V)

\* C5: for n_points >= 3 and V_min < V_max the dataset returned has n_points
\* rows, every V in [V_min, V_max], the first V_min, the last V_max, and V
\* non-decreasing along the rows.
C5_EvenlySpaced ==
    (op = "gen_fake_data" /\ args.n_points >= 3 /\ Less(args.V_min, args.V_max))
        => /\ outcome = "ok"
           /\ ret = df
           /\ Len(Rows) = args.n_points
           /\ \A i \in 1 .. Len(Rows) :
                 Leq(args.V_min, Rows[i].V) /\ Leq(Rows[i].V, args.V_max)
           /\ Rows[1].V = args.V_min
           /\ Rows[Len(Rows)].V = args.V_max
           /\ Ascending(Rows)

\* four points spread over a range, the inner ones strictly inside it
C5_Witness ==
    /\ op = "gen_fake_data" /\ outcome = "ok"
    /\ args.n_points = 4 /\ Less(args.V_min, args.V_max)
    /\ Less(args.V_min, Rows[2].V) /\ Less(Rows[2].V, Rows[3].V)
    /\ Less(Rows[3].V, args.V_max)

\* the line through the first point and point j
SlopeThrough(rows, j) ==
    Div(Sub(rows[j].M, rows[1].M), Sub(rows[j].V, rows[1].V))

OnLine(rows, k, c) ==
    \A i \in 1 .. Len(rows) : rows[i].M = Add(Mul(k, rows[i].V), c)

Exact(f, rows, k, c) ==
    /\ f.a = k
    /\ f.b = c
    /\ f.sigma_y = Sqrt(Zero)
    /\ f.sigma_a = Sqrt(Zero)
    /\ f.sigma_b = Sqrt(Zero)
    /\ f.y_pred = Column(rows, "M")

ScenarioV == <<Num(100), Num(150), Num(200)>>

ScenarioM == <<Num(400), Num(450), Num(500)>>

C7_Idempotent ==
    [][op' = "calculate_fit"
          => /\ df' = df
             /\ op = "calculate_fit"
                   => (outcome' = outcome /\ ret' = ret
                       /\ fit_results' = fit_results)]_vars

\* a second fit in a row of data that is not on a line
C7_Witness ==
    /\ op = "calculate_fit" /\ prev = "calculate_fit"
    /\ outcome = "ok"
    /\ Len(Rows) >= 3
    /\ IsFinite(Fit.sigma_y.sqrt) /\ Fit.sigma_y # Sqrt(Zero)

\* C8: with non-negative err_M, err_V and noise and V_min < V_max, every row
\* generated has sigma_V >= 0 and sigma_M >= 0, whatever M0, V0 and rho.
C8_NonNegativeSigma ==
    (/\ op = "gen_fake_data" /\ outcome = "ok"
     /\ Leq(Zero, args.err_M) /\ Leq(Zero, args.err_V) /\ Leq(Zero, args.noise)
     /\ Less(args.V_min, args.V_max))
        => \A i \in 1 .. Len(Rows) :
              Leq(Zero, Rows[i].sigma_V) /\ Leq(Zero, Rows[i].sigma_M)

\* C9: whenever the object holds a fit, y_pred has as many entries as the
\* dataset held has rows.
C9_PredictionsMatchData ==
    (fit_results # None /\ df # None) => Len(Fit.y_pred) = Len(Rows)

\* C10: for every dataset held, format_table returns a table with one row
\* per row of the dataset, row i made from Measurement i, and leaves self.df
\* and self.fit_results unchanged.
C10_FormatTable ==
    [][(op' = "format_table" /\ df # None)
          => /\ outcome' = "ok"
             /\ Len(ret'[1]) = Len(Rows)
             /\ \A i \in 1 .. Len(Rows) : ret'[1][i] = TableRow(Rows[i])
             /\ df' = df
             /\ fit_results' = fit_results]_vars

====
